---- MODULE Spec2Model ----
(***************************************************************************)
(* Model of Python/macOS-appDetect.py: the per-bundle metadata assembler   *)
(* (process_app), the parsers of the external tools' text output, and the  *)
(* batch loop and JSON output of main.                                     *)
(*                                                                         *)
(* Text is a sequence of lexemes.  A lexeme is a one-element string: a     *)
(* white-space character (" ", "\t", "\n"), a punctuation character, or a  *)
(* word that the code's patterns treat as a unit ("arm64", "Authority",    *)
(* "compatibility", a version such as "1.2", ...).  str.strip, splitlines, *)
(* startswith, split and the regular expressions are computed on these     *)
(* sequences the way Python computes them on characters.                   *)
(***************************************************************************)
EXTENDS Integers, Sequences, FiniteSets, TLC

VARIABLES
    pc,        \* position of the program: main's loop/output, or a parser call
    args,      \* parsed command line flags (argparse namespace)
    apps,      \* main: the candidate paths returned by expand_inputs
    idx,       \* main: number of candidates the for loop has consumed
    results,   \* main: the result collection
    stderr,    \* lines written to sys.stderr
    seen,      \* per consumed candidate: what the file system and tools answered
    out_str,   \* main: what is printed on stdout
    tool,      \* parser specifications: the outcome of the tool invocation
    ret        \* parser specifications: the value returned

vars == <<pc, args, apps, idx, results, stderr, seen, out_str, tool, ret>>

-----------------------------------------------------------------------------
(* Bounds of the model. *)

MaxArchLen == 3

-----------------------------------------------------------------------------
(* Python string primitives on lexeme sequences. *)

Range(s) == {s[i] : i \in DOMAIN s}

\* str.isspace for the white-space lexemes of the model
IsSpace(c) == c \in {" ", "\t", "\n"}

RECURSIVE LStrip(_)
LStrip(s) == IF s # <<>> /\ IsSpace(Head(s)) THEN LStrip(Tail(s)) ELSE s

RECURSIVE RStrip(_)
RStrip(s) ==
    IF s # <<>> /\ IsSpace(s[Len(s)]) THEN RStrip(SubSeq(s, 1, Len(s) - 1)) ELSE s

\* str.strip()
Strip(s) == LStrip(RStrip(s))

\* index of the first occurrence of lexeme c in s at or after position i, 0 if none
RECURSIVE IndexFrom(_, _, _)
IndexFrom(s, c, i) ==
    IF i > Len(s) THEN 0 ELSE IF s[i] = c THEN i ELSE IndexFrom(s, c, i + 1)

\* str.splitlines(): a trailing line break does not open another line
RECURSIVE SplitLines(_)
SplitLines(s) ==
    IF s = <<>> THEN <<>>
    ELSE LET k == IndexFrom(s, "\n", 1)
         IN IF k = 0 THEN <<s>>
            ELSE <<SubSeq(s, 1, k - 1)>> \o SplitLines(SubSeq(s, k + 1, Len(s)))

\* all sequences over S of length at most n
SeqsUpTo(S, n) == UNION {[1..k -> S] : k \in 0..n}

-----------------------------------------------------------------------------
(* External tool gateway. *)

ToolStatus == {"ok", "missing", "nonzero"}

\* a maximal run of captured bytes that is not UTF-8, and the replacement
\* character U+FFFD that errors="replace" puts in its place
BadBytes == "<0xFF>"
Replacement == "U+FFFD"

\* bytes.decode("utf-8", errors="replace"): never fails
decode(out) == [i \in 1..Len(out) |-> IF out[i] = BadBytes THEN Replacement ELSE out[i]]

\* as run_command, with the output of a failed tool kept
run_command_KeepOutput(res) == IF res.status = "missing" THEN <<>> ELSE decode(res.out)

\* run_command: the tool's text, or "" when check_output raised
run_command(res) == IF res.status = "ok" THEN decode(res.out) ELSE <<>>

-----------------------------------------------------------------------------
(* Architecture classifier. *)

\* as get_architecture, without the strip of the tool's text
get_architecture_NoStrip(res) ==
    LET out == run_command(res)
    IN IF out = <<>> THEN <<"N/A">>
       ELSE IF " " \in Range(out) THEN <<"Universal">>
       ELSE IF out = <<"arm64">> THEN <<"Apple Silicon">>
       ELSE IF out = <<"x86_64">> THEN <<"Intel [64-bit]">>
       ELSE IF out = <<"i386">> THEN <<"Intel [32-bit]">>
       ELSE out

get_architecture(res) ==
    LET out == Strip(run_command(res))
    IN IF out = <<>> THEN <<"N/A">>
       ELSE IF " " \in Range(out) THEN <<"Universal">>
       ELSE IF out = <<"arm64">> THEN <<"Apple Silicon">>
       ELSE IF out = <<"x86_64">> THEN <<"Intel [64-bit]">>
       ELSE IF out = <<"i386">> THEN <<"Intel [32-bit]">>
       ELSE out

ArchLexemes == {"arm64", "x86_64", "i386", "ppc", " ", "\t", "\n"}

ArchTexts == SeqsUpTo(ArchLexemes, MaxArchLen)

\* the state of the variables a parser specification does not use
Idle ==
    /\ args = [json |-> FALSE]
    /\ apps = <<>>
    /\ idx = 0
    /\ results = <<>>
    /\ stderr = <<>>
    /\ seen = <<>>
    /\ out_str = <<>>

IdleUnchanged == UNCHANGED <<args, apps, idx, results, stderr, seen, out_str>>

InitArch ==
    /\ pc = "get_architecture"
    /\ tool \in [status : ToolStatus, out : ArchTexts]
    /\ ret = <<>>
    /\ Idle

CallArch ==
    /\ pc = "get_architecture"
    /\ ret' = get_architecture(tool)
    /\ pc' = "returned"
    /\ UNCHANGED tool
    /\ IdleUnchanged

SpecArch == InitArch /\ [][CallArch]_vars

\* the white-space separated tokens of a text (str.split())
RECURSIVE Tokens(_)
Tokens(s) ==
    LET t == LStrip(s)
    IN IF t = <<>> THEN <<>>
       ELSE LET ends == {i \in 1..Len(t) : IsSpace(t[i])}
                k == IF ends = {} THEN Len(t) + 1
                     ELSE CHOOSE i \in ends : \A j \in ends : i <= j
            IN <<SubSeq(t, 1, k - 1)>> \o Tokens(SubSeq(t, k, Len(t)))

ArchLabel(tok) ==
    IF tok = <<"arm64">> THEN <<"Apple Silicon">>
    ELSE IF tok = <<"x86_64">> THEN <<"Intel [64-bit]">>
    ELSE IF tok = <<"i386">> THEN <<"Intel [32-bit]">>
    ELSE tok

\* C5 (as stated): an empty listing gives N/A, a listing of more than one
\* white-space separated token gives Universal whichever white space separates
\* the tokens, and a single token gives its fixed label or itself.
C5_AsStated ==
    pc = "returned" =>
        LET toks == Tokens(run_command(tool))
        IN ret = IF Len(toks) = 0 THEN <<"N/A">>
                 ELSE IF Len(toks) > 1 THEN <<"Universal">>
                 ELSE ArchLabel(toks[1])

\* C5 (amended): the listing is trimmed; empty gives N/A; a listing that holds a
\* space character gives Universal; otherwise arm64, x86_64 and i386 give their
\* labels and any other text (also several tokens separated only by tabs or
\* line breaks) is returned verbatim.
C5_Architecture ==
    pc = "returned" =>
        LET out  == Strip(run_command(tool))
            toks == Tokens(out)
        IN /\ (Len(toks) = 0) => ret = <<"N/A">>
           /\ (Len(toks) = 1) => ret = ArchLabel(toks[1])
           /\ (Len(toks) > 1 /\ \E i \in DOMAIN out : out[i] = " ")
                 => ret = <<"Universal">>
           /\ (Len(toks) > 1 /\ \A i \in DOMAIN out : out[i] # " ") => ret = out

\* a two-slice listing separated by a space has been classified
C5_Witness ==
    /\ pc = "returned"
    /\ tool.status = "ok"
    /\ Len(Tokens(tool.out)) = 2
    /\ " " \in Range(tool.out)
    /\ ret = <<"Universal">>

-----------------------------------------------------------------------------
(* Dependency structurer. *)

MaxDepLines == 3

\* first position at or after i that holds no white space (Len(s) + 1 if none)
RECURSIVE SkipSpace(_, _)
SkipSpace(s, i) == IF i <= Len(s) /\ IsSpace(s[i]) THEN SkipSpace(s, i + 1) ELSE i

\* first position at or after i whose lexeme is not in class C
RECURSIVE SkipClass(_, _, _)
SkipClass(s, i, C) == IF i <= Len(s) /\ s[i] \in C THEN SkipClass(s, i + 1, C) ELSE i

At(s, i, c) == i >= 1 /\ i <= Len(s) /\ s[i] = c

\* the lexemes matched by the class [0-9.]
NumLex == {"1.0.0", "2", ".", "10.15", "11.0"}

NoMatch == [ok |-> FALSE]

\* dep_regex from position p + 1 on, that is after a group 1 of length p:
\*   \s+\(compatibility\s+version\s+([^,]+),\s+current\s+version\s+([0-9.]+)(,\s*weak)?\)$
\* Greedy \s+ before group 2 gives back one white space only when nothing else
\* is left for [^,]+; [^,]+ and [0-9.]+ end where their class ends.
dep_regex_rest(s, p) ==
    LET i2 == SkipSpace(s, p + 1)
        i3 == SkipSpace(s, i2 + 2)
        i4 == SkipSpace(s, i3 + 1)
        xs == IF At(s, i4, ",") THEN i4 - 1 ELSE i4
        c1 == IndexFrom(s, ",", xs)
        j1 == SkipSpace(s, c1 + 1)
        j2 == SkipSpace(s, j1 + 1)
        j3 == SkipSpace(s, j2 + 1)
        j4 == SkipClass(s, j3, NumLex)
        k  == SkipSpace(s, j4 + 1)
        weak == At(s, j4, ",") /\ At(s, k, "weak") /\ At(s, k + 1, ")")
                   /\ k + 1 = Len(s)
    IN IF /\ i2 > p + 1
          /\ At(s, i2, "(") /\ At(s, i2 + 1, "compatibility")
          /\ i3 > i2 + 2 /\ At(s, i3, "version")
          /\ i4 > i3 + 1
          /\ xs > i3 + 1 /\ xs <= Len(s)
          /\ c1 > xs
          /\ j1 > c1 + 1 /\ At(s, j1, "current")
          /\ j2 > j1 + 1 /\ At(s, j2, "version")
          /\ j3 > j2 + 1
          /\ j4 > j3
          /\ (weak \/ (At(s, j4, ")") /\ j4 = Len(s)))
       THEN [ok |-> TRUE,
             compat  |-> SubSeq(s, xs, c1 - 1),
             current |-> SubSeq(s, j3, j4 - 1),
             weak    |-> weak]
       ELSE NoMatch

\* dep_regex.match(line): the lazy group 1 takes the shortest prefix that works
\* as dep_regex, with weak taken from group 3 instead of group 4
dep_regex_WeakFromGroup3(line) ==
    LET ps == {p \in 0..Len(line) : dep_regex_rest(line, p).ok}
    IN IF ps = {} THEN NoMatch
       ELSE LET p == CHOOSE q \in ps : \A r \in ps : q <= r
                m == dep_regex_rest(line, p)
            IN [ok |-> TRUE, path |-> SubSeq(line, 1, p), compat |-> m.compat,
                current |-> m.current, weak |-> m.current # <<>>]

dep_regex(line) ==
    LET ps == {p \in 0..Len(line) : dep_regex_rest(line, p).ok}
    IN IF ps = {} THEN NoMatch
       ELSE LET p == CHOOSE q \in ps : \A r \in ps : q <= r
                m == dep_regex_rest(line, p)
            IN [ok |-> TRUE, path |-> SubSeq(line, 1, p), compat |-> m.compat,
                current |-> m.current, weak |-> m.weak]

\* the body of the for loop over lines[1:]
RECURSIVE dep_records(_)
dep_records(lines) ==
    IF lines = <<>> THEN <<>>
    ELSE LET line  == Strip(Head(lines))
             match == dep_regex(line)
         IN IF line = <<>> THEN dep_records(Tail(lines))
            ELSE IF match.ok
            THEN <<[path                  |-> match.path,
                    compatibility_version |-> match.compat,
                    current_version       |-> match.current,
                    weak                  |-> match.weak]>>
                 \o dep_records(Tail(lines))
            ELSE <<[raw |-> line]>> \o dep_records(Tail(lines))

\* as parse_dependencies, without the skip of the first line
parse_dependencies_KeepFirst(res) == dep_records(SplitLines(run_command(res)))

parse_dependencies(res) ==
    LET lines == SplitLines(run_command(res))
    IN IF Len(lines) > 1 THEN dep_records(Tail(lines)) ELSE <<>>

\* text of the fixed shape: <path> (compatibility version <X>, current version <Y>[, weak])
\* sp is the white space put wherever the shape has some; mark is <<>> or the weak marker
ShapeLine(path, sp, X, Y, mark) ==
    path \o sp \o <<"(", "compatibility">> \o sp \o <<"version">> \o sp \o X
         \o <<",">> \o sp \o <<"current">> \o sp \o <<"version">> \o sp \o Y
         \o mark \o <<")">>

ShapePaths == {<<"/usr/lib/a">>, <<"/dir", " ", "b">>, <<"(", "x", ")">>}
ShapeSpaces == {<<" ">>, <<"\t">>, <<" ", " ">>}
ShapeCompat == {<<"1.0.0">>, <<"1.2b">>, <<"1.0.0", " ", "x">>}
ShapeCurrent == {<<"1.0.0">>, <<"2", ".", "2">>}
WeakMarks == {<<",", " ", "weak">>, <<",", "weak">>}

ShapeParams ==
    [path : ShapePaths, sp : ShapeSpaces, X : ShapeCompat, Y : ShapeCurrent,
     mark : WeakMarks \cup {<<>>}]

ShapeOf(q) == ShapeLine(q.path, q.sp, q.X, q.Y, q.mark)

ShapeLines == {ShapeOf(q) : q \in ShapeParams}

\* lines close to the shape that the pattern rejects
OffShapeLines ==
    { ShapeLine(<<"/usr/lib/a">>, <<" ">>, <<"1.0.0">>, <<"1.2b">>, <<>>),
      ShapeLine(<<"/usr/lib/a">>, <<" ">>, <<"1.0.0">>, <<"1.0.0">>, <<",", " ", "reexport">>),
      ShapeLine(<<"/usr/lib/a">>, <<" ">>, <<"1.0.0", ",", "2">>, <<"2">>, <<>>),
      ShapeLine(<<>>, <<" ">>, <<"1.0.0">>, <<"1.0.0">>, <<>>),
      ShapeLine(<<"/usr/lib/a">>, <<" ">>, <<"1.0.0">>, <<"1.0.0">>, <<>>) \o <<" ", "x">>,
      <<"/usr/lib/a", " ", "(", "compatibility", "version", "2", ")">> }

\* the lines of the listings that are enumerated in full
DepLines ==
    { <<>>, <<" ", "\t">>,
      <<"/bin/app", ":">>,
      <<"\t", "/usr/lib/a">>,
      <<"\t">> \o ShapeLine(<<"/usr/lib/a">>, <<" ">>, <<"1.0.0">>, <<"1.0.0">>, <<>>),
      ShapeLine(<<"/dir", " ", "b">>, <<" ">>, <<"1.0.0">>, <<"1.0.0">>, <<",", " ", "weak">>)
          \o <<" ">> }

RECURSIVE JoinLines(_)
JoinLines(ls) ==
    IF ls = <<>> THEN <<>>
    ELSE IF Len(ls) = 1 THEN ls[1]
    ELSE ls[1] \o <<"\n">> \o JoinLines(Tail(ls))

DepTexts ==
    {JoinLines(ls) \o e : ls \in SeqsUpTo(DepLines, MaxDepLines), e \in {<<>>, <<"\n">>}}
    \cup {<<"/bin/app", ":", "\n">> \o ind \o l \o e :
              ind \in {<<>>, <<"\t">>}, l \in ShapeLines \cup OffShapeLines,
              e \in {<<>>, <<" ", "\n">>}}

InitDeps ==
    /\ pc = "parse_dependencies"
    /\ tool \in [status : ToolStatus, out : DepTexts]
    /\ ret = <<>>
    /\ Idle

CallDeps ==
    /\ pc = "parse_dependencies"
    /\ ret' = parse_dependencies(tool)
    /\ pc' = "returned"
    /\ UNCHANGED tool
    /\ IdleUnchanged

SpecDeps == InitDeps /\ [][CallDeps]_vars

\* the lines of the listing after the first that are not blank, trimmed, in order
LaterLines(txt) ==
    LET lines == SplitLines(txt)
        keep  == {i \in 2..Len(lines) : Strip(lines[i]) # <<>>}
        nth(k) == CHOOSE i \in keep : Cardinality({j \in keep : j < i}) = k - 1
    IN [k \in 1..Cardinality(keep) |-> Strip(lines[nth(k)])]

DropSpace(s) == SelectSeq(s, LAMBDA c : ~IsSpace(c))

\* the text a record stands for, white space removed
RecordText(r) ==
    IF "raw" \in DOMAIN r THEN DropSpace(r.raw)
    ELSE DropSpace(r.path) \o <<"(", "compatibility", "version">>
         \o DropSpace(r.compatibility_version) \o <<",", "current", "version">>
         \o r.current_version
         \o (IF r.weak THEN <<",", "weak">> ELSE <<>>) \o <<")">>

\* C6: no record for the first line, one record per non-blank line after the
\* first (none for a listing of at most one line), in source order.
C6_OneRecordPerLaterLine ==
    pc = "returned" =>
        LET later == LaterLines(run_command(tool))
        IN /\ Len(ret) = Len(later)
           /\ \A k \in 1..Len(later) : RecordText(ret[k]) = DropSpace(later[k])
           /\ Len(SplitLines(run_command(tool))) <= 1 => ret = <<>>

\* a listing whose first line, a blank line and two dependency lines gave two records
C6_Witness ==
    /\ pc = "returned"
    /\ tool.status = "ok"
    /\ Len(SplitLines(tool.out)) = 3
    /\ Strip(SplitLines(tool.out)[1]) # <<>>
    /\ \E i \in 2..3 : Strip(SplitLines(tool.out)[i]) = <<>>
    /\ Len(ret) = 1

\* C7: a later line of the fixed shape gives the structured record of its
\* path, <X>, <Y>, with weak true exactly when the marker is there; any other
\* line gives exactly {raw: trimmed line}; a record is never both.
C7_StructuredOrRaw ==
    pc = "returned" =>
        LET later == LaterLines(run_command(tool))
        IN /\ Len(ret) = Len(later)
           /\ \A k \in 1..Len(later) :
                 LET qs == {q \in ShapeParams : ShapeOf(q) = later[k]}
                 IN /\ \A q \in qs :
                          ret[k] = [path                  |-> q.path,
                                    compatibility_version |-> q.X,
                                    current_version       |-> q.Y,
                                    weak                  |-> q.mark # <<>>]
                    /\ qs = {} => ret[k] = [raw |-> later[k]]
                    /\ DOMAIN ret[k] \in
                          { {"raw"},
                            {"path", "compatibility_version", "current_version", "weak"} }

\* a weak-marked line of the shape has given a structured record with weak = TRUE
C7_Witness ==
    /\ pc = "returned"
    /\ Len(ret) = 1
    /\ "weak" \in DOMAIN ret[1]
    /\ ret[1].weak
    /\ ret[1].path = <<"/dir", " ", "b">>
    /\ \E q \in ShapeParams : q.mark # <<>> /\ LaterLines(tool.out) = <<ShapeOf(q)>>

-----------------------------------------------------------------------------
(* Signing info parser. *)

MaxSignLines == 3

\* str.startswith(kind + "=")
StartsWithKey(s, kind) == Len(s) >= 2 /\ s[1] = kind /\ s[2] = "="

\* as AfterFirstEq, with the text cut at every "=" (split without maxsplit)
AfterFirstEq_SplitAll(s) ==
    LET a == IndexFrom(s, "=", 1)
        b == IndexFrom(s, "=", a + 1)
    IN SubSeq(s, a + 1, IF b = 0 THEN Len(s) ELSE b - 1)

\* s.split("=", 1)[1], for a text that holds an "="
AfterFirstEq(s) == SubSeq(s, IndexFrom(s, "=", 1) + 1, Len(s))

\* the body of the for loop over txt.splitlines()
RECURSIVE sign_records(_)
sign_records(lines) ==
    IF lines = <<>> THEN <<>>
    ELSE LET str == Strip(Head(lines))
             fact(kind) == <<[type |-> kind, value |-> AfterFirstEq(str)]>>
         IN (IF StartsWithKey(str, "Authority") THEN fact("Authority")
             ELSE IF StartsWithKey(str, "TeamIdentifier") THEN fact("TeamIdentifier")
             ELSE IF StartsWithKey(str, "Signature") THEN fact("Signature")
             ELSE <<>>)
            \o sign_records(Tail(lines))

get_codesign_info(res) == sign_records(SplitLines(run_command(res)))

SignLines ==
    { <<>>,
      <<"Authority", "=", "Apple Inc.">>,
      <<" ", "Authority", "=", "Apple", " ", "Root", "\t">>,
      <<"TeamIdentifier", "=", "ABC">>,
      <<"Signature", "=", "size", "=", "4442">>,
      <<"Authority", "=">>,
      <<"Authority">>,
      <<"Identifier", "=", "com.x">>,
      <<"Format", "=", "app", " ", "Authority", "=", "x">> }

SignTexts ==
    {JoinLines(ls) \o e : ls \in SeqsUpTo(SignLines, MaxSignLines), e \in {<<>>, <<"\n">>}}

InitSign ==
    /\ pc = "get_codesign_info"
    /\ tool \in [status : ToolStatus, out : SignTexts]
    /\ ret = <<>>
    /\ Idle

CallSign ==
    /\ pc = "get_codesign_info"
    /\ ret' = get_codesign_info(tool)
    /\ pc' = "returned"
    /\ UNCHANGED tool
    /\ IdleUnchanged

SpecSign == InitSign /\ [][CallSign]_vars

SignKinds == {"Authority", "TeamIdentifier", "Signature"}

\* C8: in source order, exactly one fact {type, value} per line whose trimmed
\* text starts with Authority=, TeamIdentifier= or Signature=; type is the prefix
\* name and value everything after the first "="; other lines give nothing.
C8_SigningFacts ==
    pc = "returned" =>
        LET lines == SplitLines(run_command(tool))
            keep  == {i \in 1..Len(lines) :
                         \E kind \in SignKinds :
                             /\ Len(Strip(lines[i])) >= 2
                             /\ SubSeq(Strip(lines[i]), 1, 2) = <<kind, "=">>}
            nth(k) == CHOOSE i \in keep : Cardinality({j \in keep : j < i}) = k - 1
        IN /\ Len(ret) = Cardinality(keep)
           /\ \A k \in 1..Len(ret) :
                 /\ DOMAIN ret[k] = {"type", "value"}
                 /\ <<ret[k].type, "=">> \o ret[k].value = Strip(lines[nth(k)])
           /\ (keep = {}) => ret = <<>>

\* a dump with an unrecognized line and a value holding a second "=" gave its fact
C8_Witness ==
    /\ pc = "returned"
    /\ tool.status = "ok"
    /\ Len(SplitLines(tool.out)) = 3
    /\ Len(ret) = 2
    /\ ret[1] = [type |-> "Authority", value |-> <<"Apple Inc.">>]
    /\ ret[2] = [type |-> "Signature", value |-> <<"size", "=", "4442">>]

-----------------------------------------------------------------------------
(* UUID and SDK version extractors (load command dump, otool -l). *)

\* the part of a lexeme that the class [0-9A-Fa-f-] matches from its start
HexPrefix(c) ==
    IF c \in {"A1B2-C3", "2"} THEN c
    ELSE IF c = "10.15" THEN "10"
    ELSE IF c = "11.0" THEN "11"
    ELSE IF c = "1.0.0" THEN "1"
    ELSE IF c = "cmd" THEN "c"
    ELSE ""

\* the longest text from position i on that [0-9A-Fa-f-]+ matches
RECURSIVE HexRun(_, _)
HexRun(s, i) ==
    IF i > Len(s) \/ HexPrefix(s[i]) = "" THEN <<>>
    ELSE IF HexPrefix(s[i]) = s[i] THEN <<s[i]>> \o HexRun(s, i + 1)
    ELSE <<HexPrefix(s[i])>>

\* re.search(r'uuid\s+([0-9A-Fa-f-]+)', txt): the leftmost match
get_uuid(res) ==
    LET txt == run_command(res)
        ok(i) == /\ txt[i] = "uuid"
                 /\ SkipSpace(txt, i + 1) > i + 1
                 /\ HexRun(txt, SkipSpace(txt, i + 1)) # <<>>
        hits == {i \in 1..Len(txt) : ok(i)}
    IN IF hits = {} THEN <<>>
       ELSE LET i == CHOOSE h \in hits : \A g \in hits : h <= g
            IN HexRun(txt, SkipSpace(txt, i + 1))

\* lexemes whose last characters are "sdk"
EndsInSdk(c) == c \in {"sdk", "macsdk"}

\* sdk\s+([0-9.]+) matched with its "sdk" at the end of lexeme j
SdkAt(s, j) ==
    /\ j >= 1 /\ j <= Len(s)
    /\ EndsInSdk(s[j])
    /\ SkipSpace(s, j + 1) > j + 1
    /\ SkipClass(s, SkipSpace(s, j + 1), NumLex) > SkipSpace(s, j + 1)

SdkGroup(s, j) ==
    SubSeq(s, SkipSpace(s, j + 1), SkipClass(s, SkipSpace(s, j + 1), NumLex) - 1)

Least(S) == CHOOSE x \in S : \A y \in S : x <= y

\* ^\s*sdk\s+([0-9.]+) with re.MULTILINE: "sdk" is the first text of its line
SdkLineHits(s) ==
    {j \in 1..Len(s) :
        /\ s[j] = "sdk"
        /\ SdkAt(s, j)
        /\ \E l \in 1..j : /\ (l = 1 \/ s[l - 1] = "\n")
                           /\ \A k \in l..(j - 1) : IsSpace(s[k])}

\* cmd <label>.*?sdk\s+([0-9.]+) with re.DOTALL
SdkBlockHits(s, label) ==
    LET cmds == {i \in 1..Len(s) : /\ i + 2 <= Len(s)
                                   /\ s[i] = "cmd" /\ s[i + 1] = " "
                                   /\ s[i + 2] = label}
    IN {j \in 1..Len(s) : SdkAt(s, j) /\ \E i \in cmds : j >= i + 3}

SdkAnyHits(s) == {j \in 1..Len(s) : SdkAt(s, j)}

\* as get_sdk_version, with the last matcher alone
get_sdk_version_AnyFirst(res) ==
    LET txt == run_command(res)
    IN IF SdkAnyHits(txt) # {} THEN SdkGroup(txt, Least(SdkAnyHits(txt))) ELSE <<>>

get_sdk_version(res) ==
    LET txt == run_command(res)
    IN IF SdkLineHits(txt) # {} THEN SdkGroup(txt, Least(SdkLineHits(txt)))
       ELSE IF SdkBlockHits(txt, "LC_BUILD_VERSION") # {}
       THEN SdkGroup(txt, Least(SdkBlockHits(txt, "LC_BUILD_VERSION")))
       ELSE IF SdkBlockHits(txt, "LC_VERSION_MIN_MACOSX") # {}
       THEN SdkGroup(txt, Least(SdkBlockHits(txt, "LC_VERSION_MIN_MACOSX")))
       ELSE IF SdkAnyHits(txt) # {} THEN SdkGroup(txt, Least(SdkAnyHits(txt)))
       ELSE <<>>

-----------------------------------------------------------------------------
(* Bundle descriptor reader and metadata assembler. *)

\* Python values that a property list decodes to: [t |-> type, v |-> text].
\* str, int, real and bool are what json can write; date (datetime) and data
\* (bytes) are the other scalar types of a property list.
None == [t |-> "None", v |-> ""]
Str(x) == [t |-> "str", v |-> x]
NA == Str("N/A")

\* Python truth value of a decoded scalar
Truthy(x) ==
    /\ x.t # "None"
    /\ ~(x.t \in {"str", "data"} /\ x.v = "")
    /\ ~(x.t \in {"int", "real"} /\ x.v = "0")
    /\ ~(x.t = "bool" /\ x.v = "false")

\* dict.get(key) and dict.get(key, default)
Get(d, key, default) == IF key \in DOMAIN d THEN d[key] ELSE default

\* parse_plist: what plistlib.load returned, or {} when open or load raised
parse_plist(env) ==
    IF env.plist # "file" \/ env.decoded.root = "malformed"
    THEN [root |-> "dict", d |-> <<>>]
    ELSE env.decoded

\* str.rstrip(os.sep)
RECURSIVE rstrip_sep(_)
rstrip_sep(path) ==
    IF path # <<>> /\ path[Len(path)] = "/"
    THEN rstrip_sep(SubSeq(path, 1, Len(path) - 1)) ELSE path

endswith_app(path) == path # <<>> /\ path[Len(path)] = ".app"

\* os.path.join(app_path, "Contents", "Info.plist")
plist_path_of(app_path) == app_path \o <<"/", "Contents", "/", "Info.plist">>

\* as plist_isfile, with the test of line 331 left out
plist_isfile_Always(env) == TRUE

\* os.path.isfile(plist_path)
plist_isfile(env) == env.plist \in {"file", "unreadable"}

\* as version_of, with the short version returned whenever the key is there
version_of_NoOr(info) ==
    Get(info, "CFBundleShortVersionString", Get(info, "CFBundleVersion", NA))

\* info.get("CFBundleShortVersionString") or info.get("CFBundleVersion", "N/A")
version_of(info) ==
    IF Truthy(Get(info, "CFBundleShortVersionString", None))
    THEN Get(info, "CFBundleShortVersionString", None)
    ELSE Get(info, "CFBundleVersion", NA)

\* os.path.isfile(bin_path): joined with an empty executable name the path
\* ends in a separator and names the MacOS directory
bin_isfile(exe_name, env) == exe_name.v # "" /\ env.bin_isfile

\* as facet_codesign, gated on the executable like the other facets
facet_codesign_NeedsBinary(a, isbin, app_path, env) ==
    IF a.codesign /\ isbin
    THEN [codesign_info |-> get_codesign_info(env.tools.codesign)] ELSE <<>>

facet_uuid(a, isbin, env) ==
    IF a.uuid /\ isbin THEN [uuid |-> get_uuid(env.tools.otool_l)] ELSE <<>>

facet_deps(a, isbin, env) ==
    IF a.deps /\ isbin
    THEN [dependencies |-> parse_dependencies(env.tools.otool_L)] ELSE <<>>

facet_sdk(a, isbin, env) ==
    IF a.sdk /\ isbin
    THEN [sdk_version |-> get_sdk_version(env.tools.otool_l)] ELSE <<>>

facet_codesign(a, isbin, app_path, env) ==
    IF a.codesign
    THEN [codesign_info |-> get_codesign_info(env.tools.codesign)] ELSE <<>>

Raise(exc) == [kind |-> "raise", exc |-> exc]

\* lines 335-361 of process_app, for a bundle whose descriptor file exists
assemble(app_path, a, env) ==
    LET info == parse_plist(env)
    IN IF info.root # "dict" THEN Raise("AttributeError")
       ELSE LET version   == version_of(info.d)
                min_macos == Get(info.d, "LSMinimumSystemVersion", NA)
                exe_name  == Get(info.d, "CFBundleExecutable", Str(""))
            IN IF exe_name.t # "str" THEN Raise("TypeError")
               ELSE LET isbin == bin_isfile(exe_name, env)
                        arch  == IF isbin THEN get_architecture(env.tools.lipo)
                                 ELSE <<"N/A">>
                    IN [kind |-> "meta",
                        meta |-> [app           |-> app_path,
                                  version       |-> version,
                                  minimum_macos |-> min_macos,
                                  architecture  |-> arch]
                                 @@ facet_uuid(a, isbin, env)
                                 @@ facet_deps(a, isbin, env)
                                 @@ facet_sdk(a, isbin, env)
                                 @@ facet_codesign(a, isbin, app_path, env)]

process_app(app_path0, a, env) ==
    LET app_path == rstrip_sep(app_path0)
    IN IF ~(env.isdir /\ endswith_app(app_path))
       THEN [kind |-> "None", diag |-> <<>>]
       ELSE IF ~plist_isfile(env)
       THEN [kind |-> "None",
             diag |-> <<[warning |-> "not found. Skipping",
                         plist_path |-> plist_path_of(app_path),
                         app |-> app_path]>>]
       ELSE assemble(app_path, a, env) @@ [diag |-> <<>>]

-----------------------------------------------------------------------------
(* What the file system, the property list decoder and the tools can answer. *)

Text(lines) == JoinLines(lines) \o <<"\n">>

Ok(out) == [status |-> "ok", out |-> out]

ToolsFail ==
    [lipo     |-> [status |-> "missing", out |-> <<>>],
     otool_l  |-> [status |-> "missing", out |-> <<>>],
     otool_L  |-> [status |-> "nonzero", out |-> <<"error">>],
     codesign |-> [status |-> "nonzero", out |-> <<"Authority", "=", "x">>]]

ToolsTypical ==
    [lipo     |-> Ok(<<"x86_64", " ", "arm64", "\n">>),
     otool_l  |-> Ok(Text(<< <<"cmd", " ", "LC_UUID">>,
                             <<" ", "uuid", " ", "A1B2-C3">>,
                             <<"cmd", " ", "LC_BUILD_VERSION">>,
                             <<" ", "sdk", " ", "10.15">> >>)),
     otool_L  |-> Ok(Text(<< <<"/bin/app", ":">>,
                             <<"\t">> \o ShapeLine(<<"/usr/lib/a">>, <<" ">>,
                                                   <<"1.0.0">>, <<"1.0.0">>, <<>>) >>)),
     codesign |-> Ok(Text(<< <<"Identifier", "=", "com.x">>,
                             <<"Authority", "=", "Apple Inc.">>,
                             <<"TeamIdentifier", "=", "ABC">> >>))]

ToolsOdd ==
    [lipo     |-> Ok(<<"arm64", "\t", "ppc", "\n">>),
     otool_l  |-> Ok(<<"n/a">>),
     otool_L  |-> Ok(Text(<< <<"/bin/app", ":">>, <<"\t", "/usr/lib/a">>,
                             <<"\t">> \o ShapeLine(<<"/dir", " ", "b">>, <<" ">>,
                                                   <<"1.0.0">>, <<"1.0.0">>,
                                                   <<",", " ", "weak">>) >>)),
     codesign |-> Ok(<<>>)]

ToolOutcomes == {ToolsFail, ToolsTypical, ToolsOdd}

PlistKeys ==
    {"CFBundleShortVersionString", "CFBundleVersion", "LSMinimumSystemVersion",
     "CFBundleExecutable"}

\* the dictionary holding the keys whose choice is not None
DictOf(choice) == [k \in {x \in PlistKeys : choice[x] # None} |-> choice[k]]

Dicts(short, build, minos, exe) ==
    {DictOf([CFBundleShortVersionString |-> a, CFBundleVersion |-> b,
             LSMinimumSystemVersion |-> c, CFBundleExecutable |-> e]) :
        a \in short, b \in build, c \in minos, e \in exe}

PyInt(x) == [t |-> "int", v |-> x]
Date == [t |-> "date", v |-> "2020-01-01"]
Data == [t |-> "data", v |-> "AAEC"]

Decoded(ds) ==
    {[root |-> "malformed"], [root |-> "array"]} \cup {[root |-> "dict", d |-> x] : x \in ds}

DictsFull ==
    Dicts({None, Str(""), Str("2.1"), PyInt("0"), Date},
          {None, Str(""), Str("7"), PyInt("5")},
          {None, Str(""), Str("11.0"), Data},
          {None, Str(""), Str("bin"), PyInt("5")})

NoBundle ==
    [isdir |-> FALSE, plist |-> "missing", decoded |-> [root |-> "malformed"],
     bin_isfile |-> FALSE, tools |-> ToolsFail]

\* a path that is no directory; a directory without descriptor file; one whose
\* descriptor cannot be opened; and directories with a descriptor file
Envs(ds) ==
    {NoBundle, [NoBundle EXCEPT !.isdir = TRUE],
     [NoBundle EXCEPT !.isdir = TRUE, !.plist = "unreadable"]}
    \cup [isdir : {TRUE}, plist : {"file"}, decoded : Decoded(ds),
          bin_isfile : BOOLEAN, tools : ToolOutcomes]

Flags == [uuid : BOOLEAN, deps : BOOLEAN, sdk : BOOLEAN, codesign : BOOLEAN]

PathsApp ==
    {<<"/Apps/A", ".app">>, <<"/Apps/A", ".app", "/">>, <<"/Apps/B">>, <<"/Apps/B", "/">>}

InitApp ==
    /\ pc = "process_app"
    /\ args \in {f @@ [json |-> FALSE, pretty |-> FALSE] : f \in Flags}
    /\ apps \in {<<p>> : p \in PathsApp}
    /\ idx = 0
    /\ results = <<>>
    /\ stderr = <<>>
    /\ seen = <<>>
    /\ out_str = <<>>
    /\ tool = <<>>
    /\ ret = <<>>

CallApp ==
    /\ pc = "process_app"
    /\ \E env \in Envs(DictsFull) :
          /\ seen' = <<env>>
          /\ ret' = process_app(apps[1], args, env)
    /\ pc' = "returned"
    /\ UNCHANGED <<args, apps, idx, results, stderr, out_str, tool>>

SpecApp == InitApp /\ [][CallApp]_vars

\* what the call was given: the descriptor's decoded mapping (the empty
\* mapping after a decode failure) and whether the main executable exists
DescriptorExists(env) == env.plist # "missing"
IsBundleDir(path, env) ==
    env.isdir /\ \E k \in 1..Len(path) :
                    /\ path[k] = ".app"
                    /\ \A j \in (k + 1)..Len(path) : path[j] = "/"
DecodeFailed(env) == env.plist = "unreadable" \/ env.decoded.root = "malformed"
Mapping(env) == IF DecodeFailed(env) THEN <<>> ELSE env.decoded.d
ExecutableExists(env) ==
    /\ "CFBundleExecutable" \in DOMAIN Mapping(env)
    /\ Mapping(env)["CFBundleExecutable"].v # ""
    /\ env.bin_isfile

BaseKeys == {"app", "version", "minimum_macos", "architecture"}

\* C4: a record's keys are the four base keys, plus uuid, dependencies and
\* sdk_version each exactly when its flag is set and the main executable
\* exists, plus codesign_info exactly when the signing flag is set.
C4_KeySet ==
    (pc = "returned" /\ ret.kind = "meta") =>
        LET exe == ExecutableExists(seen[1])
        IN DOMAIN ret.meta =
              BaseKeys
              \cup (IF args.uuid /\ exe THEN {"uuid"} ELSE {})
              \cup (IF args.deps /\ exe THEN {"dependencies"} ELSE {})
              \cup (IF args.sdk /\ exe THEN {"sdk_version"} ELSE {})
              \cup (IF args.codesign THEN {"codesign_info"} ELSE {})

\* signing info was requested with a facet that needs the executable, for a
\* bundle without executable: the record has codesign_info and not uuid
C4_Witness ==
    /\ pc = "returned"
    /\ ret.kind = "meta"
    /\ args.codesign /\ args.uuid /\ ~args.deps
    /\ ~ExecutableExists(seen[1])
    /\ DOMAIN ret.meta = BaseKeys \cup {"codesign_info"}

\* the values Python takes for false
FalseValues ==
    {Str(""), PyInt("0"), [t |-> "bool", v |-> "false"], [t |-> "data", v |-> ""]}

\* C9 (as stated): version is the short version field when present, else the
\* build version field when present, else "N/A"; minimum_macos is the declared
\* field or "N/A"; the version is never an empty or missing value.  A field
\* holding an empty (false) value is read here as one that falls back.
C9_AsStated ==
    (pc = "returned" /\ ret.kind = "meta") =>
        LET d == Mapping(seen[1])
            has(k) == k \in DOMAIN d /\ d[k] \notin FalseValues
        IN /\ has("CFBundleShortVersionString")
                 => ret.meta.version = d["CFBundleShortVersionString"]
           /\ (~has("CFBundleShortVersionString") /\ has("CFBundleVersion"))
                 => ret.meta.version = d["CFBundleVersion"]
           /\ ("CFBundleShortVersionString" \notin DOMAIN d
                  /\ "CFBundleVersion" \notin DOMAIN d)
                 => ret.meta.version = Str("N/A")
           /\ ret.meta.minimum_macos =
                 IF "LSMinimumSystemVersion" \in DOMAIN d
                 THEN d["LSMinimumSystemVersion"] ELSE Str("N/A")
           /\ ret.meta.version \notin {Str(""), None}

\* C9 (amended): version is the short version field when it is present and not
\* a false value (empty, zero), else the build version field when that key is
\* present (whatever its value, also empty), else "N/A"; minimum_macos is the
\* declared field when the key is present (also empty), else "N/A".
C9_Version ==
    (pc = "returned" /\ ret.kind = "meta") =>
        LET d == Mapping(seen[1])
        IN /\ ret.meta.version =
                 IF /\ "CFBundleShortVersionString" \in DOMAIN d
                    /\ d["CFBundleShortVersionString"] \notin FalseValues
                 THEN d["CFBundleShortVersionString"]
                 ELSE IF "CFBundleVersion" \in DOMAIN d THEN d["CFBundleVersion"]
                 ELSE Str("N/A")
           /\ ret.meta.minimum_macos =
                 IF "LSMinimumSystemVersion" \in DOMAIN d
                 THEN d["LSMinimumSystemVersion"] ELSE Str("N/A")

\* a descriptor with an empty short version and a build version gave the build version
C9_Witness ==
    /\ pc = "returned"
    /\ ret.kind = "meta"
    /\ "CFBundleShortVersionString" \in DOMAIN Mapping(seen[1])
    /\ Mapping(seen[1])["CFBundleShortVersionString"] = Str("")
    /\ "CFBundleVersion" \in DOMAIN Mapping(seen[1])
    /\ ret.meta.version = Str("7")
    /\ ret.meta.minimum_macos = Str("N/A")

-----------------------------------------------------------------------------
(* Structured renderer: json.dumps, and json.loads to read it back. *)

\* Python values as json sees them: [t |-> "str", v |-> lexemes], "int" and
\* "bool" with their literal, "list" of values, "dict" as the sequence of its
\* items [k, val] in insertion order; "date" and "data" are datetime and bytes.
PyStr(lexemes) == [t |-> "str", v |-> lexemes]
PyBool(b) == [t |-> "bool", v |-> IF b THEN "true" ELSE "false"]
PyList(xs) == [t |-> "list", v |-> xs]
PyDict(items) == [t |-> "dict", v |-> items]
Item(k, val) == [k |-> k, val |-> val]

\* a decoded property list scalar as a Python value
PyScalar(x) ==
    IF x.t = "str" THEN PyStr(IF x.v = "" THEN <<>> ELSE <<x.v>>) ELSE x

PyDep(r) ==
    IF "raw" \in DOMAIN r THEN PyDict(<<Item("raw", PyStr(r.raw))>>)
    ELSE PyDict(<<Item("path", PyStr(r.path)),
                  Item("compatibility_version", PyStr(r.compatibility_version)),
                  Item("current_version", PyStr(r.current_version)),
                  Item("weak", PyBool(r.weak))>>)

PyFact(r) == PyDict(<<Item("type", PyStr(<<r.type>>)), Item("value", PyStr(r.value))>>)

MapSeq(f(_), xs) == [i \in 1..Len(xs) |-> f(xs[i])]

\* the keys of a record in the order process_app inserts them
KeyOrder ==
    <<"app", "version", "minimum_macos", "architecture", "uuid", "dependencies",
      "sdk_version", "codesign_info">>

PyField(meta, k) ==
    IF k \in {"app", "architecture", "uuid", "sdk_version"} THEN PyStr(meta[k])
    ELSE IF k \in {"version", "minimum_macos"} THEN PyScalar(meta[k])
    ELSE IF k = "dependencies" THEN PyList(MapSeq(PyDep, meta[k]))
    ELSE PyList(MapSeq(PyFact, meta[k]))

PyMeta(meta) ==
    LET keys == SelectSeq(KeyOrder, LAMBDA k : k \in DOMAIN meta)
    IN PyDict([i \in 1..Len(keys) |-> Item(keys[i], PyField(meta, keys[i]))])

PyResults(rs) == PyList(MapSeq(PyMeta, rs))

\* whether json's default encoder accepts the value
RECURSIVE Serializable(_)
Serializable(x) ==
    IF x.t \in {"str", "int", "bool"} THEN TRUE
    ELSE IF x.t = "list" THEN \A i \in 1..Len(x.v) : Serializable(x.v[i])
    ELSE IF x.t = "dict" THEN \A i \in 1..Len(x.v) : Serializable(x.v[i].val)
    ELSE FALSE

\* the escapes json.dumps writes inside a string
Escape(c) ==
    IF c = "\t" THEN "\\t" ELSE IF c = "\n" THEN "\\n"
    ELSE IF c = "\"" THEN "\\\"" ELSE c

Unescape(c) ==
    IF c = "\\t" THEN "\t" ELSE IF c = "\\n" THEN "\n"
    ELSE IF c = "\\\"" THEN "\"" ELSE c

Quoted(lexemes) == <<"\"">> \o [i \in 1..Len(lexemes) |-> Escape(lexemes[i])] \o <<"\"">>

\* a line break and the indentation of a nesting level (indent=4), nothing when compact
RECURSIVE Indent(_)
Indent(level) == IF level = 0 THEN <<>> ELSE <<"    ">> \o Indent(level - 1)

Break(pretty, level) == IF pretty THEN <<"\n">> \o Indent(level) ELSE <<>>

ItemSep(pretty, level) == IF pretty THEN <<",">> \o Break(pretty, level) ELSE <<",", " ">>

RECURSIVE Encode(_, _, _)
RECURSIVE EncodeItems(_, _, _, _)
Encode(x, pretty, level) ==
    IF x.t = "str" THEN Quoted(x.v)
    ELSE IF x.t \in {"int", "bool"} THEN <<x.v>>
    ELSE LET open  == IF x.t = "list" THEN "[" ELSE "{"
             close == IF x.t = "list" THEN "]" ELSE "}"
         IN IF x.v = <<>> THEN <<open, close>>
            ELSE <<open>> \o Break(pretty, level + 1)
                 \o EncodeItems(x.v, x.t = "dict", pretty, level + 1)
                 \o Break(pretty, level) \o <<close>>

EncodeItems(items, isdict, pretty, level) ==
    LET one == IF isdict
               THEN Quoted(<<Head(items).k>>) \o <<":", " ">>
                    \o Encode(Head(items).val, pretty, level)
               ELSE Encode(Head(items), pretty, level)
    IN IF Len(items) = 1 THEN one
       ELSE one \o ItemSep(pretty, level)
            \o EncodeItems(Tail(items), isdict, pretty, level)

\* json.dumps(results, indent=4 if args.pretty else None)
json_dumps(rs, pretty) ==
    IF Serializable(PyResults(rs))
    THEN [kind |-> "text", out |-> Encode(PyResults(rs), pretty, 0)]
    ELSE Raise("TypeError")

IsJsonSpace(c) == c \in {" ", "\n", "    "}

RECURSIVE SkipJsonSpace(_, _)
SkipJsonSpace(s, i) ==
    IF i <= Len(s) /\ IsJsonSpace(s[i]) THEN SkipJsonSpace(s, i + 1) ELSE i

\* json.loads of a text json.dumps wrote: the value starting at s[i] and the
\* position after it
RECURSIVE Decode(_, _)
RECURSIVE DecodeItems(_, _, _, _)
Decode(s, i0) ==
    LET i == SkipJsonSpace(s, i0)
    IN IF s[i] = "\"" THEN
          LET j == IndexFrom(s, "\"", i + 1)
          IN [val |-> PyStr([k \in 1..(j - i - 1) |-> Unescape(s[i + k])]), next |-> j + 1]
       ELSE IF s[i] \in {"[", "{"} THEN DecodeItems(s, i + 1, s[i] = "{", <<>>)
       ELSE IF s[i] \in {"true", "false"} THEN [val |-> [t |-> "bool", v |-> s[i]], next |-> i + 1]
       ELSE [val |-> [t |-> "int", v |-> s[i]], next |-> i + 1]

DecodeItems(s, i0, isdict, acc) ==
    LET i == SkipJsonSpace(s, i0)
    IN IF s[i] \in {"]", "}"}
       THEN [val |-> [t |-> IF isdict THEN "dict" ELSE "list", v |-> acc], next |-> i + 1]
       ELSE IF s[i] = "," THEN DecodeItems(s, i + 1, isdict, acc)
       ELSE IF isdict
       THEN LET key   == Decode(s, i)
                colon == SkipJsonSpace(s, key.next)
                val   == Decode(s, colon + 1)
            IN DecodeItems(s, val.next, isdict,
                           Append(acc, Item(key.val.v[1], val.val)))
       ELSE LET val == Decode(s, i)
            IN DecodeItems(s, val.next, isdict, Append(acc, val.val))

json_loads(s) == Decode(s, 1).val

-----------------------------------------------------------------------------
(* Text renderer (color disabled: every color code is the empty string). *)

Line(label, value) == [label |-> label, value |-> value]

RECURSIVE Flatten(_)
Flatten(xss) == IF xss = <<>> THEN <<>> ELSE Head(xss) \o Flatten(Tail(xss))

DepLine(dep) ==
    IF "raw" \in DOMAIN dep THEN Line("    ", dep.raw)
    ELSE Line("    ", [path |-> dep.path, compat |-> dep.compatibility_version,
                       current |-> dep.current_version,
                       weak |-> IF dep.weak THEN "Yes" ELSE "No"])

FactLine(item) == Line("    " \o item.type \o "=", item.value)

\* lines 500-535, for one record
RecordLines(r, a) ==
    <<Line("App:", r.app), Line("  Version:", r.version),
      Line("  Minimum macOS:", r.minimum_macos),
      Line("  Architecture:", r.architecture)>>
    \o (IF a.uuid
        THEN <<Line("  UUID:", IF "uuid" \in DOMAIN r THEN r.uuid ELSE <<>>)>>
        ELSE <<>>)
    \o (IF a.deps
        THEN <<Line("  Dependencies:", <<>>)>>
             \o (IF "dependencies" \in DOMAIN r THEN MapSeq(DepLine, r.dependencies)
                 ELSE <<>>)
        ELSE <<>>)
    \o (IF a.sdk
        THEN <<Line("  SDK Version:",
                    IF "sdk_version" \in DOMAIN r THEN r.sdk_version ELSE <<>>)>>
        ELSE <<>>)
    \o (IF a.codesign
        THEN <<Line("  Code Signing Info:", <<>>)>>
             \o (IF "codesign_info" \in DOMAIN r /\ r.codesign_info # <<>>
                 THEN MapSeq(FactLine, r.codesign_info)
                 ELSE <<Line("    None", <<>>)>>)
        ELSE <<>>)
    \o <<Line("", <<>>)>>

render_text(rs, a) == Flatten([i \in 1..Len(rs) |-> RecordLines(rs[i], a)])

-----------------------------------------------------------------------------
(* main: the batch loop and the output. *)

MaxApps == 2

\* candidate paths as expand_inputs returns them: trailing separators
\* stripped, no duplicates; globbing can also name a plain file or a
\* directory without the bundle suffix
Paths == {<<"/Apps/A", ".app">>, <<"/Apps/B", ".app">>, <<"/Apps/C">>}

Batches ==
    {b \in SeqsUpTo(Paths, MaxApps) :
        b # <<>> /\ \A i, j \in 1..Len(b) : i # j => b[i] # b[j]}

FlagsMain ==
    {[uuid |-> FALSE, deps |-> FALSE, sdk |-> FALSE, codesign |-> FALSE],
     [uuid |-> TRUE, deps |-> FALSE, sdk |-> FALSE, codesign |-> TRUE],
     [uuid |-> TRUE, deps |-> TRUE, sdk |-> TRUE, codesign |-> TRUE]}

ArgsMain ==
    {f @@ o : f \in FlagsMain,
              o \in {[json |-> FALSE, pretty |-> FALSE], [json |-> TRUE, pretty |-> FALSE],
                     [json |-> TRUE, pretty |-> TRUE]}}

Bin == Str("bin")

DictsMain ==
    Dicts({Str("2.1")}, {Str("7")}, {Str("11.0")}, {Bin})
    \cup Dicts({None}, {Str("")}, {None}, {Bin})
    \cup Dicts({None}, {Str("7")}, {Date}, {None})
    \cup Dicts({None}, {None}, {None}, {None, PyInt("5")})

\* the answers for one candidate; the tools are consulted only for an
\* executable that exists
EnvsMain ==
    {e \in Envs(DictsMain) :
        /\ ~e.bin_isfile => e.tools = ToolsFail
        /\ e.bin_isfile =>
              /\ e.decoded.root = "dict"
              /\ "CFBundleExecutable" \in DOMAIN e.decoded.d
              /\ e.decoded.d["CFBundleExecutable"] = Bin}

Init ==
    /\ pc = "loop"
    /\ args \in ArgsMain
    /\ apps \in Batches
    /\ idx = 0
    /\ results = <<>>
    /\ stderr = <<>>
    /\ seen = <<>>
    /\ out_str = <<>>
    /\ tool = <<>>
    /\ ret = <<>>

\* one turn of the for loop (lines 485-488): process_app and the append
LoopStep ==
    /\ pc = "loop"
    /\ idx < Len(apps)
    /\ \E env \in EnvsMain :
          \E m \in {process_app(apps[idx + 1], args, env)} :
             /\ seen' = Append(seen, env)
             /\ idx' = idx + 1
             /\ stderr' = stderr \o m.diag
             /\ IF m.kind = "raise"
                THEN pc' = "process_app raised" /\ UNCHANGED results
                ELSE /\ pc' = "loop"
                     /\ results' = IF m.kind = "meta" THEN Append(results, m.meta)
                                   ELSE results
    /\ UNCHANGED <<args, apps, out_str, tool, ret>>

\* lines 491-496 with use_color false: the serialized collection is printed
OutputJson ==
    /\ pc = "loop"
    /\ idx = Len(apps)
    /\ args.json
    /\ \E d \in {json_dumps(results, args.pretty)} :
          IF d.kind = "raise"
          THEN pc' = "json.dumps raised" /\ UNCHANGED out_str
          ELSE pc' = "done" /\ out_str' = d.out
    /\ UNCHANGED <<args, apps, idx, results, stderr, seen, tool, ret>>

\* lines 497-535: the plain text report
OutputText ==
    /\ pc = "loop"
    /\ idx = Len(apps)
    /\ ~args.json
    /\ out_str' = render_text(results, args)
    /\ pc' = "done"
    /\ UNCHANGED <<args, apps, idx, results, stderr, seen, tool, ret>>

Next == LoopStep \/ OutputJson \/ OutputText

Spec == Init /\ [][Next]_vars

-----------------------------------------------------------------------------
(* Claims about the batch. *)

\* the candidates the loop has consumed, and whether one has a record
Consumed == 1..idx
HasRecord(i) == \E k \in 1..Len(results) : results[k].app = rstrip_sep(apps[i])
MissesDescriptor(i) == IsBundleDir(apps[i], seen[i]) /\ ~DescriptorExists(seen[i])
HasDescriptor(i) == IsBundleDir(apps[i], seen[i]) /\ DescriptorExists(seen[i])

\* C1 (as stated): every record's app is a directory, ends in .app and holds
\* a readable descriptor file; a candidate failing one of these has no record.
C1_AsStated ==
    /\ \A k \in 1..Len(results) :
          \E i \in Consumed :
             /\ results[k].app = rstrip_sep(apps[i])
             /\ seen[i].isdir
             /\ results[k].app[Len(results[k].app)] = ".app"
             /\ seen[i].plist = "file"
    /\ \A i \in Consumed :
          ~(seen[i].isdir /\ IsBundleDir(apps[i], seen[i]) /\ seen[i].plist = "file")
             => ~HasRecord(i)

\* C1 (amended): every record's app is a directory, ends in .app and has a
\* file at Contents/Info.plist, which need not be readable or decodable (the
\* record then holds the defaults); a candidate that is no directory, lacks
\* the suffix or lacks that file has no record; every record has the base keys.
C1_OnlyBundlesWithDescriptor ==
    /\ \A k \in 1..Len(results) :
          /\ BaseKeys \subseteq DOMAIN results[k]
          /\ \E i \in Consumed :
                /\ results[k].app = rstrip_sep(apps[i])
                /\ seen[i].isdir
                /\ results[k].app[Len(results[k].app)] = ".app"
                /\ seen[i].plist \in {"file", "unreadable"}
    /\ \A i \in Consumed :
          ~(IsBundleDir(apps[i], seen[i]) /\ seen[i].plist \in {"file", "unreadable"})
             => ~HasRecord(i)

\* the batch is over: one bundle lacked its descriptor, the other gave a record
C1_Witness ==
    /\ pc = "done"
    /\ idx = 2
    /\ Len(results) = 1
    /\ \E i \in Consumed : MissesDescriptor(i)
    /\ \E i \in Consumed : HasRecord(i) /\ seen[i].plist = "file"

\* C2: every bundle directory without descriptor file is absent from the
\* result and gives exactly one diagnostic line, so the diagnostic lines
\* number the bundles missing their descriptor, and every later bundle that
\* has a descriptor still yields its record.
C2_SkipAndContinue ==
    /\ Len(stderr) = Cardinality({i \in Consumed : MissesDescriptor(i)})
    /\ \A i \in Consumed :
          MissesDescriptor(i) =>
             /\ ~HasRecord(i)
             /\ \A j \in Consumed : (j > i /\ HasDescriptor(j)) => HasRecord(j)

\* C3: no error escapes a bundle's processing: whatever decoding and the
\* tools give, the loop does not stop on an exception and the result holds a
\* record for every consumed bundle whose descriptor file exists.
C3_NoErrorEscapes ==
    /\ pc # "process_app raised"
    /\ \A i \in Consumed : HasDescriptor(i) => HasRecord(i)

DepKeyOrders ==
    {<<"path", "compatibility_version", "current_version", "weak">>, <<"raw">>}

Keys(dict) == [i \in 1..Len(dict.v) |-> dict.v[i].k]

\* the decoded dependency records and signing facts have their fixed keys
FixedShapes(decoded) ==
    \A r \in 1..Len(decoded.v) :
       \A f \in 1..Len(decoded.v[r].v) :
          LET item == decoded.v[r].v[f]
          IN /\ item.k = "dependencies" =>
                   \A d \in 1..Len(item.val.v) : Keys(item.val.v[d]) \in DepKeyOrders
             /\ item.k = "codesign_info" =>
                   \A d \in 1..Len(item.val.v) : Keys(item.val.v[d]) = <<"type", "value">>

\* C10: for every result collection the assembler can produce, the
\* serialized output (compact or indented) decodes to a collection equal to
\* it field for field and in the same order, dependency records and signing
\* facts having their fixed keys.
C10_RoundTrip ==
    (args.json /\ pc \in {"done", "json.dumps raised"}) =>
        /\ pc = "done"
        /\ json_loads(out_str) = PyResults(results)
        /\ FixedShapes(json_loads(out_str))

-----------------------------------------------------------------------------
(* Tool gateway on its own. *)

MaxOutLen == 3

OutLexemes == {"sdk", " ", "\n", BadBytes}

OutBytes == SeqsUpTo(OutLexemes, MaxOutLen)

InitTool ==
    /\ pc = "run_command"
    /\ tool \in [status : ToolStatus, out : OutBytes]
    /\ ret = <<>>
    /\ Idle

CallTool ==
    /\ pc = "run_command"
    /\ ret' = run_command(tool)
    /\ pc' = "returned"
    /\ UNCHANGED tool
    /\ IdleUnchanged

SpecTool == InitTool /\ [][CallTool]_vars

Decodable(out) == BadBytes \notin Range(out)

\* C11 (as stated): run_command returns empty text for a missing binary, a
\* non-zero exit and captured bytes that do not decode as text; only a
\* successful run with decodable output returns non-empty text, the output.
C11_AsStated ==
    pc = "returned" =>
        /\ (tool.status # "ok" \/ ~Decodable(tool.out)) => ret = <<>>
        /\ ret # <<>> => (tool.status = "ok" /\ Decodable(tool.out) /\ ret = tool.out)

\* C11 (amended): run_command returns empty text for a missing binary and
\* for a non-zero exit; a successful run returns the captured output as text
\* of the same length, every undecodable run of bytes replaced by U+FFFD and
\* everything else unchanged, so decoding never fails and never empties it.
C11_Gateway ==
    pc = "returned" =>
        /\ tool.status # "ok" => ret = <<>>
        /\ tool.status = "ok" =>
              /\ Len(ret) = Len(tool.out)
              /\ \A i \in 1..Len(ret) :
                    \/ ret[i] = tool.out[i] /\ tool.out[i] # BadBytes
                    \/ ret[i] = Replacement /\ tool.out[i] = BadBytes
        /\ ret # <<>> => (tool.status = "ok" /\ tool.out # <<>>)

\* a successful run whose output held undecodable bytes returned text
C11_Witness ==
    /\ pc = "returned"
    /\ tool.status = "ok"
    /\ ~Decodable(tool.out)
    /\ Len(tool.out) > 1
    /\ Replacement \in Range(ret)
    /\ "sdk" \in Range(ret)

-----------------------------------------------------------------------------
(* SDK version extractor on its own. *)

MaxSdkLines == 3

\* lines of a load-command dump: the two command labels, an indented sdk
\* line, sdk values inside a line, an sdk without version, a bare version
SdkLines ==
    {<<"cmd", " ", "LC_BUILD_VERSION">>,
     <<"cmd", " ", "LC_VERSION_MIN_MACOSX">>,
     <<" ", "sdk", " ", "10.15">>,
     <<"minos", " ", "11.0", " ", "sdk", " ", "11.0">>,
     <<"macsdk", " ", "2">>,
     <<"sdk", " ", "n/a">>,
     <<"sdk">>,
     <<"1.0.0">>,
     <<>>}

SdkTexts == {JoinLines(ls) : ls \in SeqsUpTo(SdkLines, MaxSdkLines)}

InitSdk ==
    /\ pc = "get_sdk_version"
    /\ tool \in [status : ToolStatus, out : SdkTexts]
    /\ ret = <<>>
    /\ Idle

CallSdk ==
    /\ pc = "get_sdk_version"
    /\ ret' = get_sdk_version(tool)
    /\ pc' = "returned"
    /\ UNCHANGED tool
    /\ IdleUnchanged

SpecSdk == InitSdk /\ [][CallSdk]_vars

\* the version the matcher with hits H captures in text s
Captured(s, H) == SdkGroup(s, Least(H))

\* C12: get_sdk_version returns the version captured by the first of four
\* matchers that matches, in the order standalone sdk line, sdk after an
\* LC_BUILD_VERSION label, sdk after an LC_VERSION_MIN_MACOSX label, any sdk;
\* it returns the empty string exactly when none matches; a standalone sdk
\* line wins over a build-version-block value.
C12_SdkOrder ==
    pc = "returned" =>
        LET txt == run_command(tool)
            m1 == SdkLineHits(txt)
            m2 == SdkBlockHits(txt, "LC_BUILD_VERSION")
            m3 == SdkBlockHits(txt, "LC_VERSION_MIN_MACOSX")
            m4 == SdkAnyHits(txt)
        IN /\ m1 # {} => ret = Captured(txt, m1)
           /\ (m1 = {} /\ m2 # {}) => ret = Captured(txt, m2)
           /\ (m1 = {} /\ m2 = {} /\ m3 # {}) => ret = Captured(txt, m3)
           /\ (m1 = {} /\ m2 = {} /\ m3 = {} /\ m4 # {}) => ret = Captured(txt, m4)
           /\ (ret = <<>>) <=> (m1 = {} /\ m2 = {} /\ m3 = {} /\ m4 = {})
           /\ (m1 # {} /\ m2 # {}) => \E j \in m1 : ret = SdkGroup(txt, j)

\* a build-version block with its sdk value came first in the dump, a
\* standalone sdk line with another value later: the standalone value won
C12_Witness ==
    /\ pc = "returned"
    /\ tool.status = "ok"
    /\ SdkLineHits(tool.out) # {}
    /\ SdkBlockHits(tool.out, "LC_BUILD_VERSION") # {}
    /\ Least(SdkBlockHits(tool.out, "LC_BUILD_VERSION")) < Least(SdkLineHits(tool.out))
    /\ SdkGroup(tool.out, Least(SdkBlockHits(tool.out, "LC_BUILD_VERSION"))) = <<"11.0">>
    /\ ret = <<"10.15">>

-----------------------------------------------------------------------------
(* Highlighting pass over the serialized text (color enabled). *)

\* the color codes of the scheme, one lexeme each: they begin with ESC and
\* end with the letter m, and hold no quote, colon or white space
Markers ==
    [property |-> "<property>", emphasis |-> "<emphasis>",
     certificate |-> "<certificate>", string |-> "<string>",
     keyword |-> "<keyword>", numeric |-> "<numeric>", reset |-> "<reset>"]

MarkerSet == {Markers[k] : k \in DOMAIN Markers}

\* the first quote at or after position i, 0 if there is none
NextQuote(s, i) == IndexFrom(s, "\"", i)

\* stage 1, r'("([^"]+)")\s*:' : the colon that ends a match opening at
\* position i, 0 when there is no match there
KeyColon(s, i) ==
    LET j == IF s[i] = "\"" THEN NextQuote(s, i + 1) ELSE 0
        k == SkipJsonSpace(s, j + 1)
    IN IF j > i + 1 /\ k <= Len(s) /\ s[k] = ":" THEN k ELSE 0

\* re.sub: the leftmost match from i on is replaced, then the text after it
RECURSIVE colorize_keys(_, _)
colorize_keys(s, i) ==
    LET hits == {p \in i..Len(s) : KeyColon(s, p) # 0}
    IN IF hits = {} THEN SubSeq(s, i, Len(s))
       ELSE LET p == Least(hits)
            IN SubSeq(s, i, p - 1) \o <<Markers.property, Markers.emphasis>>
               \o SubSeq(s, p, NextQuote(s, p + 1)) \o <<Markers.reset, ":">>
               \o colorize_keys(s, KeyColon(s, p) + 1)

\* ((?:"[^"]*",?\s*)+) from position p: the position after the last element,
\* 0 when there is no element at p
RECURSIVE StringsEnd(_, _)
StringsEnd(s, p) ==
    IF p > Len(s) \/ s[p] # "\"" THEN 0
    ELSE LET j == NextQuote(s, p + 1)
             c == IF j # 0 /\ j < Len(s) /\ s[j + 1] = "," THEN j + 2 ELSE j + 1
             n == SkipJsonSpace(s, c)
         IN IF j = 0 THEN 0
            ELSE IF StringsEnd(s, n) # 0 THEN StringsEnd(s, n) ELSE n

\* the inner re.sub(r'"([^"]*)"', ...) over the elements
RECURSIVE colorize_elements(_)
colorize_elements(g) ==
    IF g = <<>> THEN <<>>
    ELSE LET j == IF Head(g) = "\"" THEN NextQuote(g, 2) ELSE 0
         IN IF j # 0
            THEN <<Markers.certificate>> \o SubSeq(g, 1, j) \o <<Markers.reset>>
                 \o colorize_elements(SubSeq(g, j + 1, Len(g)))
            ELSE <<Head(g)>> \o colorize_elements(Tail(g))

\* stage 2, r'(\[\s*)((?:"[^"]*",?\s*)+)(\])' : the closing bracket of a
\* match opening at position i, 0 when there is no match there
ArrayClose(s, i) ==
    LET e == IF s[i] = "[" THEN StringsEnd(s, SkipJsonSpace(s, i + 1)) ELSE 0
    IN IF e # 0 /\ e <= Len(s) /\ s[e] = "]" THEN e ELSE 0

RECURSIVE colorize_arrays(_, _)
colorize_arrays(s, i) ==
    LET hits == {p \in i..Len(s) : ArrayClose(s, p) # 0}
    IN IF hits = {} THEN SubSeq(s, i, Len(s))
       ELSE LET p == Least(hits)
                q == SkipJsonSpace(s, p + 1)
                e == ArrayClose(s, p)
            IN SubSeq(s, i, q - 1) \o colorize_elements(SubSeq(s, q, e - 1))
               \o <<"]">> \o colorize_arrays(s, e + 1)

\* stage 3, r':\s*("([^"]*)")' : the closing quote of a match opening at the
\* colon at position i, 0 when there is no match there
StringClose(s, i) ==
    LET p == IF s[i] = ":" THEN SkipJsonSpace(s, i + 1) ELSE 0
    IN IF p # 0 /\ p <= Len(s) /\ s[p] = "\"" THEN NextQuote(s, p + 1) ELSE 0

\* the text between the colon and the quote is written back as one space
RECURSIVE colorize_strings(_, _)
colorize_strings(s, i) ==
    LET hits == {p \in i..Len(s) : StringClose(s, p) # 0}
    IN IF hits = {} THEN SubSeq(s, i, Len(s))
       ELSE LET p == Least(hits)
            IN SubSeq(s, i, p - 1) \o <<":", " ", Markers.string>>
               \o SubSeq(s, SkipJsonSpace(s, p + 1), StringClose(s, p))
               \o <<Markers.reset>> \o colorize_strings(s, StringClose(s, p) + 1)

\* lexemes whose first, and whose last, character is a letter, digit or
\* underscore (\w), for the word boundaries of stage 4
NonWordStart ==
    {"\"", ":", ",", " ", "\n", "    ", "[", "]", "{", "}", "/Apps/A", "/Apps/",
     "/Apps/Report 1", ".app", "/usr/lib/a", "/bin/app (architecture arm64)"} \cup MarkerSet

NonWordEnd ==
    {"\"", ":", ",", " ", "\n", "    ", "[", "]", "{", "}", "/Apps/", "Apple Inc.",
     "/bin/app (architecture arm64)"}

StartsWord(c) == c \notin NonWordStart
EndsWord(c) == c \notin NonWordEnd

\* stage 4, r'\b(true|false|null)\b'
KeywordAt(s, i) ==
    /\ s[i] \in {"true", "false", "null"}
    /\ (i = 1 \/ ~EndsWord(s[i - 1]))
    /\ (i = Len(s) \/ ~StartsWord(s[i + 1]))

RECURSIVE colorize_keywords(_, _)
colorize_keywords(s, i) ==
    LET hits == {p \in i..Len(s) : KeywordAt(s, p)}
    IN IF hits = {} THEN SubSeq(s, i, Len(s))
       ELSE LET p == Least(hits)
            IN SubSeq(s, i, p - 1) \o <<Markers.keyword, s[p], Markers.reset>>
               \o colorize_keywords(s, p + 1)

\* the lexemes that -?\d+(?:\.\d+)? matches whole
Numbers == {"7", "2", "37", "2.1", "11.0", "10.15"}

\* stage 5, r':\s*(-?\d+(?:\.\d+)?)' : the number of a match opening at the
\* colon at position i, 0 when there is no match there
NumberAt(s, i) ==
    LET p == IF s[i] = ":" THEN SkipJsonSpace(s, i + 1) ELSE 0
    IN IF p # 0 /\ p <= Len(s) /\ s[p] \in Numbers THEN p ELSE 0

\* the text between the colon and the number is written back as one space
RECURSIVE colorize_numbers(_, _)
colorize_numbers(s, i) ==
    LET hits == {p \in i..Len(s) : NumberAt(s, p) # 0}
    IN IF hits = {} THEN SubSeq(s, i, Len(s))
       ELSE LET p == Least(hits)
            IN SubSeq(s, i, p - 1)
               \o <<":", " ", Markers.numeric, s[NumberAt(s, p)], Markers.reset>>
               \o colorize_numbers(s, NumberAt(s, p) + 1)

colorize_json(json_text) ==
    LET keys    == colorize_keys(json_text, 1)
        arrays  == colorize_arrays(keys, 1)
        strings == colorize_strings(arrays, 1)
        words   == colorize_keywords(strings, 1)
    IN colorize_numbers(words, 1)

\* bundle paths: plain, holding the word null, and the bundle that Finder
\* shows as "Report 1/2.app" (a colon on disk)
ColorApps ==
    {<<"/Apps/A", ".app">>, <<"/Apps/", "null", ".app">>,
     <<"/Apps/Report 1", ":", "2", ".app">>}

ColorDeps ==
    {<<>>,
     <<[path |-> <<"/usr/lib/a">>, compatibility_version |-> <<"1.0.0">>,
        current_version |-> <<"1.0.0">>, weak |-> TRUE]>>,
     <<[raw |-> <<"/bin/app (architecture arm64)", ":">>],
       [path |-> <<"/usr/lib/a">>, compatibility_version |-> <<"1.0.0">>,
        current_version |-> <<"10.15">>, weak |-> FALSE]>>}

ColorFacts ==
    {<<>>,
     <<[type |-> "Authority", value |-> <<"Apple Inc.">>],
       [type |-> "TeamIdentifier", value |-> <<"ABC">>]>>,
     <<[type |-> "Authority",
        value |-> <<"Developer ID Application", ":", " ", "37", "signals LLC">>]>>}

\* records as process_app assembles them
ColorMetas ==
    {base @@ deps @@ facts :
        base \in [app : ColorApps, version : {Str("2.1"), PyInt("7"), Str("")},
                  minimum_macos : {Str("11.0")}, architecture : {<<"Universal">>}],
        deps \in {<<>>} \cup {[dependencies |-> d] : d \in ColorDeps},
        facts \in {<<>>} \cup {[codesign_info |-> f] : f \in ColorFacts}}

PlainMeta ==
    [app |-> <<"/Apps/A", ".app">>, version |-> Str("2.1"),
     minimum_macos |-> Str("N/A"), architecture |-> <<"N/A">>]

ColorResults == {<<m>> : m \in ColorMetas} \cup {<<m, PlainMeta>> : m \in ColorMetas}

InitColor ==
    /\ pc = "colorize_json"
    /\ args \in [json : {TRUE}, pretty : BOOLEAN]
    /\ results \in ColorResults
    /\ apps = <<>>
    /\ idx = 0
    /\ stderr = <<>>
    /\ seen = <<>>
    /\ out_str = <<>>
    /\ tool = <<>>
    /\ ret = <<>>

\* lines 491-496 with use_color true; ret keeps the text json.dumps wrote
CallColor ==
    /\ pc = "colorize_json"
    /\ \E d \in {json_dumps(results, args.pretty)} :
          /\ ret' = d.out
          /\ out_str' = colorize_json(d.out)
    /\ pc' = "printed"
    /\ UNCHANGED <<args, apps, idx, results, stderr, seen, tool>>

SpecColor == InitColor /\ [][CallColor]_vars

StripMarkers(s) == SelectSeq(s, LAMBDA c : c \notin MarkerSet)

\* no role start marker stands between another start marker and its reset
\* (emphasis belongs to the key name's start)
NoNestedWrap(s) ==
    LET starts == MarkerSet \ {Markers.reset, Markers.emphasis}
    IN \A i, j \in 1..Len(s) :
          (i < j /\ s[i] \in starts /\ s[j] \in starts)
             => \E k \in (i + 1)..(j - 1) : s[k] = Markers.reset

\* C13: deleting the inserted start and reset markers from the output of
\* colorize_json gives the serialized text back, character for character,
\* and no stage wraps text inside a token an earlier stage has wrapped.
C13_Overlay ==
    pc = "printed" =>
        /\ StripMarkers(out_str) = ret
        /\ NoNestedWrap(out_str)

====
